---- MODULE Spec2Model ----
(***************************************************************************)
(* Model of text2speech_skill/cli.py: the Text2SpeechClient job lifecycle  *)
(* (submit, poll with deadline, classify, download) and the commands that  *)
(* drive it (speak, design, clone, batch-speak, batch-clone).              *)
(*                                                                         *)
(* Python strings that the code inspects (startswith, strip, rstrip,       *)
(* truthiness) are sequences of one-character strings.  One behaviour is   *)
(* one run of one command; the server's answers, the request latencies and *)
(* the local file system's answers are chosen by the environment.          *)
(***************************************************************************)
EXTENDS Integers, Sequences, FiniteSets, TLC

\* ------------------------------------------------------------------ bounds

\* Most .txt files in the input directory of a batch run.
MaxFiles == 2

\* Most status polls of one wait_for_completion; the last allowed poll takes
\* so long that the deadline has passed at the next loop test.
MaxPolls == 2

\* ------------------------------------------------------- program constants

\* wait_for_completion(..., poll_interval = 1.0, timeout = 300.0)
PollInterval == 1
Timeout == 300

\* API_BASE = "https://mc.agaii.org/TTS/api/v1"
API_BASE ==
    << "h", "t", "t", "p", "s", ":", "/", "/", "mc.agaii.org",
       "/", "TTS", "/", "api", "/", "v", "1" >>

\* ------------------------------------------------------------ Python values

\* A Python string is a sequence of chunks; every character the code inspects
\* is a chunk of its own.  None and "key not in the dict" are two values that
\* are no string.
None == << "<None>" >>
Absent == << "<absent>" >>

\* str(v) as an f-string formats it
Str(v) == IF v = None THEN << "None" >> ELSE v

\* str.startswith(prefix)
StartsWith(s, p) ==
    /\ Len(s) >= Len(p)
    /\ SubSeq(s, 1, Len(p)) = p

\* str.rstrip('/'): drop every trailing '/'
RECURSIVE RStripSlash(_)
RStripSlash(s) ==
    IF s # << >> /\ s[Len(s)] = "/"
    THEN RStripSlash(SubSeq(s, 1, Len(s) - 1))
    ELSE s

\* str.strip(): drop leading and trailing whitespace
IsSpace(c) == c \in {" ", "\n"}

RECURSIVE LStrip(_)
LStrip(s) ==
    IF s # << >> /\ IsSpace(s[1]) THEN LStrip(Tail(s)) ELSE s

RECURSIVE RStrip(_)
RStrip(s) ==
    IF s # << >> /\ IsSpace(s[Len(s)])
    THEN RStrip(SubSeq(s, 1, Len(s) - 1))
    ELSE s

\* A read that strips nothing
Strip_Nothing(s) == s

Strip(s) == RStrip(LStrip(s))

\* Python truthiness of an optional string: None and "" are false
Truthy(v) == v # None /\ v # << >>

\* dict.get(key, default) and dict.get(key)
Get(d, key, default) == IF d[key] = Absent THEN default ELSE d[key]
GetOpt(d, key) == Get(d, key, None)

\* Lexicographic order of two strings over the character order of CharRank
CharRank(c) == CASE c = "." -> 1 [] c = "a" -> 2 [] c = "b" -> 3 [] OTHER -> 0

RECURSIVE LexLess(_, _)
LexLess(s, t) ==
    IF t = << >> THEN FALSE
    ELSE IF s = << >> THEN TRUE
    ELSE IF s[1] = t[1] THEN LexLess(Tail(s), Tail(t))
    ELSE CharRank(s[1]) < CharRank(t[1])

\* sorted(names): the ascending sequence of a set of distinct names
RECURSIVE Sorted(_)
Sorted(S) ==
    IF S = {} THEN << >>
    ELSE LET m == CHOOSE x \in S : \A y \in S \ {x} : LexLess(x, y)
         IN  << m >> \o Sorted(S \ {m})

\* --------------------------------------------------------------- the inputs

\* Command-line strings: a text, a speaker or description, a timbre
Texts == { << >>, << "h", "i" >> }
Voices == { << >>, << "v" >> }

\* The -a / --audio argument: not given, a path with no file, a path of a file
NoFile == << "missing.wav" >>
AFile == << "ref.wav" >>
AudioArgs == { None, NoFile, AFile }
Exists(path) == path = AFile

\* The *.txt files a directory may hold, and what one may contain
FileNames ==
    { << "a", ".", "txt" >>, << "a", "b", ".", "txt" >>, << "b", ".", "txt" >> }
FileTexts == { << >>, << " ", "\n" >>, << " ", "h", "i", "\n" >> }
Directories ==
    UNION { [D -> FileTexts] : D \in { S \in SUBSET FileNames : Cardinality(S) <= MaxFiles } }

\* Path(...).stem and the output file's name
Stem(name) == SubSeq(name, 1, Len(name) - 2)
OutFile(name) == << "out/" >> \o Stem(name) \o << ".", "wav" >>
OutArg == << "out.wav" >>

BatchCommands == { "batch-speak", "batch-clone" }

Args(c, t, v, tm, au, d) ==
    [ command |-> c, text |-> t, voice |-> v, timbre |-> tm, audio |-> au, dir |-> d ]

EmptyDir == [ n \in {} |-> << >> ]

\* main(): the parsed arguments of one run.  "voice_design_clone" is a direct
\* call of the client method of that name, which no subcommand reaches.
Inputs ==
    { Args("speak", t, v, None, None, EmptyDir) : t \in Texts, v \in Voices }
    \cup { Args("design", t, v, None, None, EmptyDir) : t \in Texts, v \in Voices }
    \cup { Args("clone", t, << >>, tm, au, EmptyDir) :
             t \in Texts, tm \in Voices \cup { None }, au \in AudioArgs }
    \cup { Args("batch-speak", << >>, << "v" >>, None, None, d) : d \in Directories }
    \cup { Args("batch-clone", << >>, << >>, None, au, d) :
             au \in { NoFile, AFile }, d \in Directories }
    \cup { Args("voice_design_clone", t, v, None, None, EmptyDir) :
             t \in Texts, v \in Voices }

\* ------------------------------------------------------- the server's answers

\* Artifact references a status may carry
RefAbsolute == << "h", "t", "t", "p", ":", "/", "/", "x", "/", "y" >>
RefRooted == << "/", "a", "/", "b" >>
RefBare == << "a", "/", "b" >>
RefBareHttp == << "h", "t", "t", "p", "d", "o", "c", "s", "/", "b" >>
AudioRefs == { RefAbsolute, RefRooted, RefBare, RefBareHttp }

Boom == << "boom" >>
Unknown == << "Unknown" >>

\* The JSON object of GET /jobs/{id}/status; progress is << >> or << percent >>
Status(st, url, err, prog) ==
    [ status |-> st, audio_url |-> url, error |-> err, progress |-> prog ]

TerminalStatuses == { "completed", "failed", "cancelled" }

StatusResponses ==
    { Status("queued", Absent, Absent, << >>),
      Status("processing", Absent, Absent, << 50 >>),
      Status("<absent>", Absent, Absent, << >>) }
    \cup { Status("completed", u, Absent, << 100 >>) : u \in AudioRefs }
    \cup { Status("completed", u, Absent, << >>) : u \in { Absent, None, << >> } }
    \cup { Status("completed", Absent, Boom, << >>),
           Status("failed", RefRooted, Boom, << >>) }
    \cup { Status("failed", Absent, e, << >>) : e \in { Absent, None, Boom } }
    \cup { Status("cancelled", Absent, e, << >>) : e \in { Absent, Boom } }

\* What a request can end in: a 2xx answer, or raise_for_status's HTTPError
HttpOutcomes == { "ok", "HTTPError" }

\* Server-assigned job ids, in the order the server hands them out
JobIds == << "j1", "j2", "j3", "j4", "j5", "j6" >>
JobId(n) == << JobIds[n] >>
NoJob == << >>

\* How long a status request may take, in seconds
Latencies == { 0, Timeout - PollInterval }

\* ------------------------------------------------------------------ state

VARIABLES
    args,        \* the parsed command line of this run
    pc,          \* where the command is
    text_files,  \* batch: sorted(input_path.glob("*.txt"))
    idx,         \* batch: how many of text_files the loop has gone through
    text,        \* the text of the job in hand
    results,     \* batch: the list of result records
    job_id,      \* the id the submit returned
    njobs,       \* server: how many jobs it has created
    elapsed,     \* wait_for_completion: time.time() - start, in seconds; 0 outside it
    polls,       \* wait_for_completion: the status objects received so far
    status,      \* what wait_for_completion returned
    http,        \* every request the session was asked to make, in order
    out,         \* what was printed, in order
    exit_code,   \* the process's exit status, << >> while it runs
    files,       \* output files: << path, "audio" >>, or "partial" after a failed write
    report,      \* batch_report.json: << >> or << the results written >>
    faults       \* the files whose submit, await or download went wrong

vars ==
    << args, pc, text_files, idx, text, results, job_id, njobs, elapsed,
       polls, status, http, out, exit_code, files, report, faults >>

NoStatus == Status("<none>", Absent, Absent, << >>)

Msg(stream, words) == [ stream |-> stream, text |-> words ]

\* One call of session.get or session.post; `op` names the client method making it
Request(op, method, url, payload) ==
    [ op |-> op, method |-> method, url |-> url, payload |-> payload ]
NoPayload == [ kind |-> "none" ]

IsBatch == args.command \in BatchCommands

\* The file the batch loop is at
CurFile == text_files[idx + 1]

\* Text2SpeechClient.__init__: base_url.rstrip('/')
BaseUrl == RStripSlash(API_BASE)

Init ==
    /\ args \in Inputs
    /\ pc = "start"
    /\ text_files = << >>
    /\ idx = 0
    /\ text = << >>
    /\ results = << >>
    /\ job_id = NoJob
    /\ njobs = 0
    /\ elapsed = 0
    /\ polls = << >>
    /\ status = NoStatus
    /\ http = << >>
    /\ out = << >>
    /\ exit_code = << >>
    /\ files = {}
    /\ report = << >>
    /\ faults = {}

\* wait_for_completion(job_id, progress_callback=...) called on its own: no
\* observer, one that notes each status it is given, one that raises
Observers == { "none", "records", "raises" }

ObserverArgs(o) == [ command |-> "wait_for_completion", observer |-> o ]

InitObserver ==
    /\ args \in { ObserverArgs(o) : o \in Observers }
    /\ pc = "wait"
    /\ text_files = << >>
    /\ idx = 0
    /\ text = << >>
    /\ results = << >>
    /\ job_id = JobId(1)
    /\ njobs = 1
    /\ elapsed = 0
    /\ polls = << >>
    /\ status = NoStatus
    /\ http = << >>
    /\ out = << >>
    /\ exit_code = << >>
    /\ files = {}
    /\ report = << >>
    /\ faults = {}

\* ------------------------------------------------------- how a step can end

\* An exception leaves the step.  In a batch command every step from the
\* submit to the download is inside `try: ... except Exception as e:`, which
\* records an error entry and goes on with the next file; in the other
\* commands nothing catches it and the interpreter exits with status 1.
RaiseUncaught(type, msg, printed) ==
    /\ pc' = "done"
    /\ exit_code' = << 1 >>
    /\ out' = out \o printed \o << Msg("stderr", << "Traceback: ", type, ": " >> \o msg) >>
    /\ UNCHANGED << results, idx, faults >>

\* A step that is tried again when it raises
Raise_Retry(type, msg, printed) ==
    /\ pc' = pc
    /\ out' = out \o printed
    /\ UNCHANGED << results, idx, exit_code, faults >>

\* A batch loop whose try does not catch
Raise_NotCaught(type, msg, printed) == RaiseUncaught(type, msg, printed)

Raise(type, msg, printed) ==
    IF IsBatch
    THEN /\ pc' = "loop"
         /\ idx' = idx + 1
         /\ results' = Append(results, [ file |-> CurFile, status |-> "error", error |-> msg ])
         /\ out' = out \o printed \o << Msg("stdout", << "  x " >> \o msg) >>
         /\ faults' = faults \cup { CurFile }
         /\ UNCHANGED exit_code
    ELSE RaiseUncaught(type, msg, printed)

\* sys.exit(1) after a message on stderr
Exit1(words) ==
    /\ pc' = "done"
    /\ exit_code' = << 1 >>
    /\ out' = Append(out, Msg("stderr", words))

\* --------------------------------------------------------------- the client

\* The JSON or form payload each submit method builds, and where it posts it
CustomVoicePayload(t, speaker) ==
    [ kind |-> "custom-voice", text |-> t, speaker |-> speaker, language |-> << "Auto" >> ]

VoiceDesignPayload(t, instruct) ==
    [ kind |-> "voice-design", text |-> t, instruct |-> instruct, language |-> << "Auto" >> ]

VoiceClonePayload(t, audio_path) ==
    [ kind |-> "voice-clone", text |-> t, audio |-> audio_path, language |-> << "Auto" >>,
      x_vector_only_mode |-> << "false" >>, consent_acknowledged |-> << "true" >> ]

TimbrePayload(t, timbre_speaker) ==
    [ kind |-> "voice-clone-timbre", text |-> t, speaker |-> timbre_speaker,
      language |-> << "Auto" >>, mode |-> << "clone" >> ]

DesignClonePayload(design_text, design_instruct, clone_texts) ==
    [ kind |-> "voice-design-clone", design_text |-> design_text,
      design_instruct |-> design_instruct, clone_texts |-> clone_texts,
      design_language |-> << "Auto" >>, clone_language |-> << "Auto" >> ]

\* The submit call of the command in hand
UsesTimbre == args.command = "clone" /\ Truthy(args.timbre)

SubmitPayload ==
    CASE args.command \in { "speak", "batch-speak" } -> CustomVoicePayload(text, args.voice)
      [] args.command = "design" -> VoiceDesignPayload(text, args.voice)
      [] UsesTimbre -> TimbrePayload(text, args.timbre)
      [] args.command \in { "clone", "batch-clone" } /\ ~UsesTimbre ->
            VoiceClonePayload(text, args.audio)
      [] OTHER -> DesignClonePayload(text, args.voice, << text >>)

SubmitPath(kind) ==
    CASE kind \in { "custom-voice", "voice-clone-timbre" } -> << "/tts/custom-voice" >>
      [] kind = "voice-design" -> << "/tts/voice-design" >>
      [] kind = "voice-clone" -> << "/tts/voice-clone" >>
      [] OTHER -> << "/tts/voice-design-clone" >>

StatusUrl(id) == BaseUrl \o << "/jobs/" >> \o id \o << "/status" >>

\* download_audio: the URL it asks the session for
ResolveUrl(base, audio_url) ==
    IF StartsWith(audio_url, << "/" >>) THEN base \o audio_url
    ELSE IF ~StartsWith(audio_url, << "h", "t", "t", "p" >>) THEN base \o << "/" >> \o audio_url
    ELSE audio_url

\* requests sends only a URL with an http or https scheme; for any other it
\* raises MissingSchema or InvalidSchema before anything is sent
HasHttpScheme(url) ==
    \/ StartsWith(url, << "h", "t", "t", "p", ":", "/", "/" >>)
    \/ StartsWith(url, << "h", "t", "t", "p", "s", ":", "/", "/" >>)

\* A wait that does not take "cancelled" for an end
IsTerminal_NoCancelled(st) == st.status \in { "completed", "failed" }

\* wait_for_completion: the statuses that end the polling
IsTerminal(st) == st.status \in TerminalStatuses

\* A loop that never gives up
BeforeDeadline_Never == TRUE

\* wait_for_completion: the loop's test
BeforeDeadline == elapsed < Timeout

\* TimeoutError(f"Job {job_id} timeout")
TimeoutMessage(id) == << "Job " >> \o id \o << " timeout" >>

\* cmd_speak.show_progress: what one call prints
ShowProgress(st) ==
    LET progress == IF st.progress = << >> THEN 0 ELSE st.progress[1]
    IN  IF progress # 0
        THEN << Msg("stdout", << "  Progress: ", ToString(progress), "%" >>) >>
        ELSE << >>

\* One call of an observer, with the status it was given
Observed(st) == [ stream |-> "observer", text |-> << st >> ]

ObserverError == << "observer failed" >>

\* The progress_callback of this run: what one call leaves behind
Callback(st) ==
    IF args.command = "speak" THEN ShowProgress(st)
    ELSE IF args.command = "wait_for_completion" /\ args.observer # "none"
    THEN << Observed(st) >>
    ELSE << >>

\* progress_callback(status) raises
CallbackRaises(st) ==
    args.command = "wait_for_completion" /\ args.observer = "raises"

\* A test that looks only at the audio_url, and one that looks only at the status
HasAudio_AnyStatus(st) == Truthy(GetOpt(st, "audio_url"))
HasAudio_StatusOnly(st) == st.status = "completed"

\* The commands' test of the status wait_for_completion returned
HasAudio(st) == st.status = "completed" /\ Truthy(GetOpt(st, "audio_url"))

\* The commands' failure branch: status.get('error', 'Unknown')
FailureMessage(st) == Get(st, "error", Unknown)

\* ------------------------------------------------------------- the commands

WaitVars == << elapsed, polls, status >>
BatchVars == << text_files, idx, results, report >>

\* cmd_speak, cmd_design and the direct voice_design_clone call, up to the submit
StartSimple ==
    /\ pc = "start"
    /\ args.command \in { "speak", "design", "voice_design_clone" }
    /\ text' = args.text
    /\ pc' = "submit"
    /\ out' = IF args.command = "voice_design_clone"
              THEN out
              ELSE Append(out, Msg("stdout", << "Text: " >> \o args.text))
    /\ UNCHANGED << args, BatchVars, job_id, njobs, WaitVars, http, exit_code,
                    files, faults >>

\* cmd_clone up to the submit: a timbre skips the look at the audio path
StartClone ==
    /\ pc = "start"
    /\ args.command = "clone"
    /\ text' = args.text
    /\ IF Truthy(args.timbre)
       THEN /\ pc' = "submit"
            /\ out' = Append(out, Msg("stdout", << "Using timbre: " >> \o args.timbre))
            /\ UNCHANGED << exit_code, results, idx, faults >>
       ELSE IF args.audio = None
       THEN RaiseUncaught("TypeError", << "stat: path should be string" >>,
                          << Msg("stdout", << "Cloning from: None" >>) >>)
       ELSE IF ~Exists(args.audio)
       THEN /\ Exit1(<< "Audio file not found: " >> \o args.audio)
            /\ UNCHANGED << results, idx, faults >>
       ELSE /\ pc' = "submit"
            /\ out' = Append(out, Msg("stdout", << "Cloning from: " >> \o args.audio))
            /\ UNCHANGED << exit_code, results, idx, faults >>
    /\ UNCHANGED << args, text_files, report, job_id, njobs, WaitVars, http, files >>

\* cmd_batch_speak and cmd_batch_clone up to the loop
StartBatch ==
    /\ pc = "start"
    /\ IsBatch
    /\ IF args.command = "batch-clone" /\ ~Exists(args.audio)
       THEN /\ Exit1(<< "Reference audio not found: " >> \o args.audio)
            /\ UNCHANGED text_files
       ELSE /\ text_files' = Sorted(DOMAIN args.dir)
            /\ pc' = "loop"
            /\ out' = Append(out, Msg("stdout", << "Found files" >>))
            /\ UNCHANGED exit_code
    /\ UNCHANGED << args, idx, text, results, report, job_id, njobs, WaitVars,
                    http, files, faults >>

\* What the last pass of the batch loop left in job_id and status (and, inside
\* wait_for_completion, in start) is never read again: the next pass binds
\* them anew before it reads them.  The loop's head drops them.
DropJob ==
    /\ job_id' = NoJob
    /\ elapsed' = 0
    /\ polls' = << >>
    /\ status' = NoStatus

\* The batch loop's head: the next file is read and stripped; an empty one is
\* passed over; after the last one the loop ends
LoopNext ==
    /\ pc = "loop"
    /\ idx < Len(text_files)
    /\ LET t == Strip(args.dir[CurFile])
       IN  IF t = << >>
           THEN /\ out' = out \o << Msg("stdout", CurFile), Msg("stdout", << "  Empty file" >>) >>
                /\ idx' = idx + 1
                /\ text' = << >>
                /\ UNCHANGED pc
           ELSE /\ out' = Append(out, Msg("stdout", CurFile))
                /\ text' = t
                /\ pc' = "submit"
                /\ UNCHANGED idx
    /\ DropJob
    /\ UNCHANGED << args, text_files, results, report, njobs, http, exit_code, files,
                    faults >>

LoopEnd ==
    /\ pc = "loop"
    /\ idx = Len(text_files)
    /\ pc' = IF args.command = "batch-speak" THEN "report" ELSE "summary"
    /\ text' = << >>
    /\ DropJob
    /\ UNCHANGED << args, BatchVars, njobs, http, out, exit_code, files, faults >>

\* The submit call: voice_clone opens the audio file first; then one POST;
\* raise_for_status; resp.json()["job_id"]
Submit ==
    /\ pc = "submit"
    /\ LET payload == SubmitPayload
           opens == payload.kind = "voice-clone"
       IN  IF opens /\ ~Exists(payload.audio)
           THEN /\ Raise("FileNotFoundError", << "No such file: " >> \o Str(payload.audio), << >>)
                /\ UNCHANGED << http, job_id, njobs >>
           ELSE /\ http' = Append(http, Request("submit", "POST", BaseUrl \o SubmitPath(payload.kind), payload))
                /\ \E o \in HttpOutcomes \cup { "KeyError" } :
                     CASE o = "HTTPError" ->
                            /\ Raise("HTTPError", << "500 Server Error" >>, << >>)
                            /\ UNCHANGED << job_id, njobs >>
                       [] o = "KeyError" ->
                            /\ Raise("KeyError", << "'job_id'" >>, << >>)
                            /\ UNCHANGED << job_id, njobs >>
                       [] OTHER ->
                            /\ njobs' = njobs + 1
                            /\ job_id' = JobId(njobs + 1)
                            /\ IF args.command = "voice_design_clone"
                               THEN pc' = "done" /\ exit_code' = << 0 >> /\ UNCHANGED out
                               ELSE /\ pc' = "wait"
                                    /\ out' = Append(out, Msg("stdout", << "Job ID: " >> \o JobId(njobs + 1)))
                                    /\ UNCHANGED exit_code
                            /\ UNCHANGED << results, idx, faults >>
    /\ UNCHANGED << args, text_files, text, report, WaitVars, files >>

\* wait_for_completion's entry: start = time.time()
WaitStart ==
    /\ pc = "wait"
    /\ elapsed' = 0
    /\ polls' = << >>
    /\ status' = NoStatus
    /\ pc' = "check"
    /\ UNCHANGED << args, BatchVars, text, job_id, njobs, http, out, exit_code,
                    files, faults >>

\* The loop's test; past the deadline the TimeoutError is raised
WaitCheck ==
    /\ pc = "check"
    /\ IF BeforeDeadline
       THEN /\ pc' = "poll"
            /\ UNCHANGED << results, idx, out, exit_code, faults >>
       ELSE Raise("TimeoutError", TimeoutMessage(job_id), << >>)
    /\ elapsed' = IF BeforeDeadline THEN elapsed ELSE 0
    /\ UNCHANGED << args, text_files, text, report, job_id, njobs, polls, status, http,
                    files >>

\* One pass of the loop's body up to the sleep: get_job_status (one GET,
\* raise_for_status, the JSON object), the progress callback, the test of
\* status["status"].  The request takes some time, which counts when the
\* loop goes on; a return or an exception leaves the function and its start
\* time behind.
Poll ==
    /\ pc = "poll"
    /\ Len(polls) < MaxPolls
    /\ http' = Append(http, Request("get_job_status", "GET", StatusUrl(job_id), NoPayload))
    /\ \E o \in HttpOutcomes, st \in StatusResponses :
         IF o = "HTTPError"
         THEN /\ Raise("HTTPError", << "404 Not Found" >>, << >>)
              /\ elapsed' = 0
              /\ UNCHANGED << polls, status >>
         ELSE /\ polls' = Append(polls, st)
              /\ IF CallbackRaises(st)
                 THEN /\ Raise("RuntimeError", ObserverError, Callback(st))
                      /\ elapsed' = 0
                      /\ UNCHANGED status
                 ELSE IF st.status = "<absent>"
                 THEN /\ Raise("KeyError", << "'status'" >>, Callback(st))
                      /\ elapsed' = 0
                      /\ UNCHANGED status
                 ELSE /\ out' = out \o Callback(st)
                      /\ IF IsTerminal(st)
                         THEN pc' = "classify" /\ status' = st /\ elapsed' = 0
                         ELSE /\ pc' = "sleep"
                              /\ \E lat \in IF Len(polls) + 1 >= MaxPolls
                                             THEN { Timeout }
                                             ELSE Latencies :
                                    elapsed' = elapsed + lat
                              /\ UNCHANGED status
                      /\ UNCHANGED << results, idx, exit_code, faults >>
    /\ UNCHANGED << args, text_files, text, report, job_id, njobs, files >>

\* time.sleep(poll_interval)
Sleep ==
    /\ pc = "sleep"
    /\ elapsed' = elapsed + PollInterval
    /\ pc' = "check"
    /\ UNCHANGED << args, BatchVars, text, job_id, njobs, polls, status, http, out,
                    exit_code, files, faults >>

\* After the wait: a completed status with an audio_url goes on to the
\* download; any other status is the failure branch
OutputPath == IF IsBatch THEN OutFile(CurFile) ELSE OutArg

Classify ==
    /\ pc = "classify"
    /\ IF HasAudio(status)
       THEN /\ pc' = "download"
            /\ UNCHANGED << results, idx, out, exit_code, faults >>
       ELSE LET error == FailureMessage(status)
            IN  IF IsBatch
                THEN /\ out' = Append(out, Msg("stdout", << "  x " >> \o Str(error)))
                     /\ results' = Append(results,
                            [ file |-> CurFile, status |-> "failed", error |-> error ])
                     /\ idx' = idx + 1
                     /\ pc' = "loop"
                     /\ faults' = faults \cup { CurFile }
                     /\ UNCHANGED exit_code
                ELSE /\ Exit1(<< "Failed: " >> \o Str(error))
                     /\ UNCHANGED << results, idx, faults >>
    /\ UNCHANGED << args, text_files, text, report, job_id, njobs, WaitVars, http,
                    files >>

\* What the local file system can answer to the write of the output file
WriteOutcomes == { "ok", "write fails" }

\* A download that does not look at the HTTP status
StatusOk_Always(o) == TRUE

\* resp.raise_for_status(): whether the answer lets the caller go on
StatusOk(o) == o = "ok"

\* resp.content of an answer
Content(o) == IF o = "ok" THEN "audio" ELSE "error body"

\* The success branch's report
SuccessEntry ==
    IF args.command = "batch-speak"
    THEN [ file |-> CurFile, status |-> "success", output |-> OutFile(CurFile) ]
    ELSE [ file |-> CurFile, status |-> "success" ]

Succeed ==
    IF IsBatch
    THEN /\ out' = Append(out, Msg("stdout", << "  ok " >> \o OutputPath))
         /\ results' = Append(results, SuccessEntry)
         /\ idx' = idx + 1
         /\ pc' = "loop"
         /\ UNCHANGED << exit_code, faults >>
    ELSE /\ out' = Append(out, Msg("stdout", << "Saved: " >> \o OutputPath))
         /\ pc' = "done"
         /\ exit_code' = << 0 >>
         /\ UNCHANGED << results, idx, faults >>

\* download_audio and the lines after it: the URL, one GET, raise_for_status,
\* mkdir of the parent, the write; then the success report
Download ==
    /\ pc = "download"
    /\ LET url == ResolveUrl(BaseUrl, status.audio_url)
       IN  /\ http' = Append(http, Request("download_audio", "GET", url, NoPayload))
           /\ IF ~HasHttpScheme(url)
              THEN /\ Raise("MissingSchema", << "Invalid URL " >> \o url, << >>)
                   /\ UNCHANGED files
              ELSE \E o \in HttpOutcomes, w \in WriteOutcomes :
                     IF ~StatusOk(o)
                     THEN /\ Raise("HTTPError", << "404 Not Found" >>, << >>)
                          /\ UNCHANGED files
                     ELSE IF w = "write fails"
                     THEN /\ Raise("OSError", << "No space left on device" >>, << >>)
                          /\ files' = { f \in files : f[1] # OutputPath }
                                         \cup { << OutputPath, "partial" >> }
                     ELSE /\ files' = { f \in files : f[1] # OutputPath }
                                         \cup { << OutputPath, Content(o) >> }
                          /\ Succeed
    /\ UNCHANGED << args, text_files, text, report, job_id, njobs, WaitVars >>

\* cmd_batch_speak after the loop: batch_report.json is written
WriteReport ==
    /\ pc = "report"
    /\ report' = << results >>
    /\ pc' = "summary"
    /\ UNCHANGED << args, text_files, idx, text, results, job_id, njobs, WaitVars,
                    http, out, exit_code, files, faults >>

\* The summary line
SuccessCount == Cardinality({ i \in 1 .. Len(results) : results[i].status = "success" })

Summary ==
    /\ pc = "summary"
    /\ out' = Append(out, Msg("stdout",
                 << "Complete: ", ToString(SuccessCount), "/", ToString(Len(results)) >>))
    /\ pc' = "done"
    /\ exit_code' = << 0 >>
    /\ UNCHANGED << args, BatchVars, text, job_id, njobs, WaitVars, http, files,
                    faults >>

Next ==
    \/ StartSimple
    \/ StartClone
    \/ StartBatch
    \/ LoopNext
    \/ LoopEnd
    \/ Submit
    \/ WaitStart
    \/ WaitCheck
    \/ Poll
    \/ Sleep
    \/ Classify
    \/ Download
    \/ WriteReport
    \/ Summary

Spec == Init /\ [][Next]_vars

\* wait_for_completion on its own
NextObserver ==
    \/ WaitStart
    \/ WaitCheck
    \/ Poll
    \/ Sleep

SpecObserver == InitObserver /\ [][NextObserver]_vars

\* ---------------------------------------------------------------- the claims

Last(q) == q[Len(q)]

\* The requests of one client method, out of the log
RequestsOf(op) == SelectSeq(http, LAMBDA r : r.op = op)

\* How many status requests were made for a job
StatusRequests(id) ==
    Cardinality({ i \in 1 .. Len(http) :
                    http[i].op = "get_job_status" /\ http[i].url = StatusUrl(id) })

\* The wait, or the whole pass over one job, has ended
AfterWait == pc \in { "classify", "download", "loop", "done" }
AfterJob == pc \in { "loop", "done" }

Ends(st) == st.status = "completed" \/ st.status = "failed" \/ st.status = "cancelled"

\* C1: wait_for_completion returns the first status that is completed, failed
\* or cancelled and makes no status request after it: no status received
\* before the last one is terminal, and once the last one is, the wait has
\* returned exactly that status after exactly as many requests as statuses.
C1_ReturnsFirstTerminal ==
    /\ \A i \in 1 .. Len(polls) - 1 : ~Ends(polls[i])
    /\ (polls # << >> /\ Ends(Last(polls))) =>
          /\ AfterWait
          /\ status = Last(polls)
          /\ StatusRequests(job_id) = Len(polls)

\* processing, then completed: returned after exactly two polls
C1_Witness ==
    /\ Len(polls) = 2
    /\ polls[1].status = "processing"
    /\ polls[2].status = "completed"
    /\ status = polls[2]
    /\ StatusRequests(job_id) = 2
    /\ pc = "done"

\* The wait ended with no terminal status received, no failed request and no
\* malformed status: what is left is the deadline
EndedUnfinished ==
    /\ AfterJob
    /\ job_id # NoJob
    /\ status = NoStatus
    /\ polls # << >>
    /\ StatusRequests(job_id) = Len(polls)
    /\ \A i \in 1 .. Len(polls) : polls[i].status \in { "queued", "processing" }

\* The error a command reports last: the uncaught exception's traceback, or
\* the batch's error entry
ReportsError(type, msg) ==
    IF IsBatch
    THEN /\ results # << >>
         /\ Last(results) = [ file |-> text_files[idx], status |-> "error", error |-> msg ]
    ELSE /\ exit_code = << 1 >>
         /\ Last(out) = Msg("stderr", << "Traceback: ", type, ": " >> \o msg)

\* C2: a job that has reached no terminal status when the time since the
\* start of the wait exceeds the timeout makes the wait fail with a timeout
\* error that names the job, and nothing is downloaded for it: no status
\* request is started once the elapsed time exceeds the timeout, and a wait
\* that ends with only queued or processing statuses received ends with
\* TimeoutError("Job <id> timeout"), the status request being the last
\* request made for the job and no output file written for it.
C2_TimeoutNamesJob ==
    /\ pc = "poll" => elapsed <= Timeout
    /\ EndedUnfinished =>
          /\ ReportsError("TimeoutError", << "Job " >> \o job_id \o << " timeout" >>)
          /\ Last(http).op = "get_job_status"
          /\ \A f \in files : f[1] # (IF IsBatch THEN OutFile(text_files[idx]) ELSE OutArg)

\* A batch pass that timed out after two polls and was recorded as an error
C2_Witness ==
    /\ EndedUnfinished
    /\ Len(polls) = 2
    /\ args.command = "batch-clone"
    /\ Last(results).status = "error"

\* A file with something other than whitespace in it
HasText(content) == \E i \in 1 .. Len(content) : content[i] \notin { " ", "\n" }
FilesWithText == { n \in DOMAIN args.dir : HasText(args.dir[n]) }

\* The batch command got past its look at the reference audio and has ended
BatchEnded ==
    /\ IsBatch
    /\ pc = "done"
    /\ args.command = "batch-clone" => args.audio = AFile

\* The file names the loop announced, in the order it took them
Announced == SelectSeq(out, LAMBDA m : m.text \in DOMAIN args.dir)

Ascending(names) ==
    \A i, j \in 1 .. Len(names) : i < j => LexLess(names[i], names[j])

\* C3: a batch goes through every input file in lexicographic order of the
\* names and to the end of the loop whatever goes wrong in the submit, the
\* wait or the download of a file; the results hold one entry per file with
\* text, in that order, a failed or error entry exactly at the files where
\* something went wrong and a success entry at every other.  With one such
\* file that is one failed or error entry at its position.
C3_BatchSurvivesFailure ==
    BatchEnded =>
       /\ exit_code = << 0 >>
       /\ Len(Announced) = Cardinality(DOMAIN args.dir)
       /\ Ascending([ i \in 1 .. Len(Announced) |-> Announced[i].text ])
       /\ Len(results) = Cardinality(FilesWithText)
       /\ Ascending([ i \in 1 .. Len(results) |-> results[i].file ])
       /\ \A i \in 1 .. Len(results) :
             /\ results[i].file \in FilesWithText
             /\ results[i].status \in { "success", "failed", "error" }
             /\ results[i].status = "success" <=> results[i].file \notin faults

\* Two files with text, the first went wrong, the second was still done
C3_Witness ==
    /\ BatchEnded
    /\ Len(results) = 2
    /\ faults = { results[1].file }
    /\ results[1].status = "error"
    /\ results[2].status = "success"

\* How many of the files announced so far have text
AnnouncedWithText ==
    Cardinality({ i \in 1 .. Len(Announced) : Announced[i].text \in FilesWithText })

\* C4: in a batch, a file that is empty once stripped of whitespace causes no
\* submit and gets no result entry: every submit carries a text, there are
\* never more submits than files with text taken so far, every result entry
\* is of a file with text, and at the end of the batch the number of submits
\* is the number of files with text.
C4_EmptyFilesSkipped ==
    IsBatch =>
       /\ \A i \in 1 .. Len(http) : http[i].op = "submit" => http[i].payload.text # << >>
       /\ Len(RequestsOf("submit")) <= AnnouncedWithText
       /\ \A i \in 1 .. Len(results) : results[i].file \in FilesWithText
       /\ BatchEnded => Len(RequestsOf("submit")) = Cardinality(FilesWithText)

\* A batch over an empty file and a file with text: one submit, one entry
C4_Witness ==
    /\ BatchEnded
    /\ Cardinality(DOMAIN args.dir) = 2
    /\ \E n \in DOMAIN args.dir : args.dir[n] = << " ", "\n" >>
    /\ Len(RequestsOf("submit")) = 1
    /\ Len(results) = 1

\* C5: every batch run, of batch-speak and of batch-clone, has written the
\* JSON report of its result records when it prints the summary and ends.
C5_ReportWritten ==
    (IsBatch /\ pc = "done" /\ exit_code = << 0 >>) => report = << results >>

\* The message of the commands' failure branch for a status
ErrorOrUnknown(st) == IF st.error = Absent THEN Unknown ELSE st.error

\* The pass over the job in `status` ended in the failure branch with `msg`:
\* nothing was requested after the status request that ended the wait,
\* nothing was written, and the failure was signalled
FailedWith(msg) ==
    /\ Last(http).op = "get_job_status"
    /\ Last(http).url = StatusUrl(job_id)
    /\ \A f \in files : f[1] # (IF IsBatch THEN OutFile(text_files[idx]) ELSE OutArg)
    /\ IF IsBatch
       THEN Last(results) = [ file |-> text_files[idx], status |-> "failed", error |-> msg ]
       ELSE /\ exit_code = << 1 >>
            /\ Last(out) = Msg("stderr", << "Failed: " >> \o Str(msg))

NoArtifact(st) ==
    /\ st.status = "completed"
    /\ st.audio_url = Absent \/ st.audio_url = None \/ st.audio_url = << >>

\* C7 as stated: a completed status without an artifact reference is a
\* failure without a download, reported as "no audio produced".
C7_NoAudioProduced ==
    (AfterJob /\ NoArtifact(status)) => FailedWith(<< "no audio produced" >>)

\* C7 as amended: a completed status without an artifact reference (no
\* audio_url, a null or an empty one) is a failure without a download,
\* reported like a failed job: with the status's error, or "Unknown" when
\* the status has none.
C7_NoAudioIsUnknownFailure ==
    (AfterJob /\ NoArtifact(status)) => FailedWith(ErrorOrUnknown(status))

\* A completed status with an empty audio_url in a batch: a failed entry
C7_Witness ==
    /\ pc = "loop"
    /\ status.status = "completed"
    /\ status.audio_url = << >>
    /\ Last(results).status = "failed"
    /\ Last(results).error = Unknown

\* The fields a submission of each kind must fill
RequiredFilled(p) ==
    CASE p.kind \in { "custom-voice", "voice-clone-timbre" } ->
            p.text # << >> /\ p.speaker # << >>
      [] p.kind = "voice-design" -> p.text # << >> /\ p.instruct # << >>
      [] p.kind = "voice-clone" -> p.text # << >> /\ p.audio = AFile
      [] OTHER ->
            /\ p.design_text # << >>
            /\ p.design_instruct # << >>
            /\ \A i \in 1 .. Len(p.clone_texts) : p.clone_texts[i] # << >>

\* C8: a submission of any kind with an empty required field or with a
\* missing audio file fails before any HTTP request is sent: every submit
\* request sent has its required fields filled and its audio file there.
C8_NothingSentIfInvalid ==
    \A i \in 1 .. Len(http) : http[i].op = "submit" => RequiredFilled(http[i].payload)

\* The URL a reference stands for
IsAbsoluteUrl(ref) ==
    \/ StartsWith(ref, << "h", "t", "t", "p", ":", "/", "/" >>)
    \/ StartsWith(ref, << "h", "t", "t", "p", "s", ":", "/", "/" >>)

ExpectedUrl(ref) ==
    IF IsAbsoluteUrl(ref) THEN ref
    ELSE IF ref[1] = "/" THEN BaseUrl \o ref
    ELSE BaseUrl \o << "/" >> \o ref

\* C9: download_audio requests an absolute URL unchanged, a reference that
\* starts with '/' as {base}{ref}, and every other reference, also one
\* whose first characters are "http", as {base}/{ref}.
C9_DownloadUrl ==
    (AfterJob /\ http # << >> /\ Last(http).op = "download_audio") =>
       Last(http).url = ExpectedUrl(status.audio_url)

\* C10: a success is reported (the Saved line of a single command, a
\* success entry of a batch) only for a job whose download got a success
\* answer and whose bytes were written to the output path in full; after a
\* failed download or write the path holds no such file and no success is
\* reported for it.
C10_SuccessOnlyAfterWrite ==
    /\ \A i \in 1 .. Len(out) :
          out[i].text = << "Saved: " >> \o OutArg =>
             /\ << OutArg, "audio" >> \in files
             /\ RequestsOf("download_audio") # << >>
    /\ \A i \in 1 .. Len(results) :
          results[i].status = "success" =>
             /\ << OutFile(results[i].file), "audio" >> \in files
             /\ Len(RequestsOf("download_audio")) >= 
                   Cardinality({ j \in 1 .. i : results[j].status = "success" })
    /\ (~IsBatch /\ pc = "done" /\ << OutArg, "audio" >> \notin files) =>
          (exit_code # << 0 >> \/ args.command = "voice_design_clone")

\* A batch whose first file's write failed (an error entry, a partial file)
\* and whose second file was saved
C10_Witness ==
    /\ BatchEnded
    /\ Len(results) = 2
    /\ results[1].status = "error"
    /\ << OutFile(results[1].file), "partial" >> \in files
    /\ results[2].status = "success"
    /\ << OutFile(results[2].file), "audio" >> \in files

\* A job has been submitted and its pass has not ended
InJob == pc \in { "wait", "check", "poll", "sleep", "classify", "download" }

\* C11: the submit is never sent again: speak, design and clone send at most
\* one submit request in a run, and a batch at most one per input file,
\* whatever the submit, the job or the polling ends in; a file's submit is
\* sent only when every submit before it has its result entry.  At any time
\* the submits sent are at most the passes ended plus the one under way, and
\* never more than the files taken so far.
C11_SubmitNeverRetried ==
    LET n == Len(RequestsOf("submit"))
    IN  /\ ~IsBatch => n <= 1
        /\ IsBatch =>
              /\ n <= Len(results) + (IF InJob THEN 1 ELSE 0)
              /\ n <= Len(Announced)
              /\ BatchEnded => n <= Cardinality(DOMAIN args.dir)

\* A batch of two files: the first submit got an HTTP error, the second
\* file's job timed out; two submits in all
C11_Witness ==
    /\ BatchEnded
    /\ Len(results) = 2
    /\ results[1].status = "error"
    /\ results[2].status = "error"
    /\ results[1].error = << "500 Server Error" >>
    /\ results[2].error = << "Job ", "j1", " timeout" >>
    /\ Len(RequestsOf("submit")) = 2

\* The statuses the observer was called with, in order
ObserverCalls ==
    LET calls == SelectSeq(out, LAMBDA m : m.stream = "observer")
    IN  [ i \in 1 .. Len(calls) |-> calls[i].text[1] ]

\* The exception wait_for_completion was left with, << >> if none
RaisedType ==
    IF pc = "done" /\ out # << >> /\ Last(out).stream = "stderr"
    THEN << Last(out).text[2] >>
    ELSE << >>

\* The wait goes on after this answer
GoesOn(st) == st.status # "<absent>" /\ ~IsTerminal(st)

\* How the loop without an observer ends on the answers in `polls`: it
\* returns the first terminal status, which is the last answer; or the last
\* answer has no status key (KeyError); or every answer let it go on and
\* the deadline passed (TimeoutError) or the next request failed (HTTPError)
UnobservedOutcome ==
    /\ \A i \in 1 .. Len(polls) - 1 : GoesOn(polls[i])
    /\ \/ /\ pc = "classify"
          /\ polls # << >>
          /\ IsTerminal(Last(polls))
          /\ status = Last(polls)
       \/ /\ RaisedType = << "KeyError" >>
          /\ polls # << >>
          /\ Last(polls).status = "<absent>"
       \/ /\ RaisedType \in { << "TimeoutError" >>, << "HTTPError" >> }
          /\ \A i \in 1 .. Len(polls) : GoesOn(polls[i])

\* C12: an observer passed to wait_for_completion is called exactly once per
\* status poll, with that poll's status, the terminal one included; and on
\* the same answers the wait makes the same polls and ends the same way
\* (the same status returned, the same error) as without the observer,
\* whatever the observer does.  The loop without an observer is a function
\* of the answers and the clock, so an observed wait that has ended must
\* have ended as UnobservedOutcome says.
C12_ObserverDoesNotAffectWait ==
    /\ args.observer # "none" => ObserverCalls = polls
    /\ pc \in { "classify", "done" } => UnobservedOutcome

====
